---- MODULE Spec2Model ----
(***************************************************************************)
(* Show controller of the movie ticket booking backend                     *)
(* (src/unnamed/part_000): fetchWithRetry, getNowPlayingMovies, addShow,   *)
(* getShows and getShow, running as concurrent request handlers of one     *)
(* Node.js process over the Movie and Show collections.                    *)
(*                                                                         *)
(* Time is counted in hours.  A date string "2024-05-0d" is the day number *)
(* d, a time string "hh:00" is the hour hh, and the template string        *)
(* `${showDate}T${time}` is the pair <<d, hh>>.  An instant is the number  *)
(* of hours since 2024-04-30T00:00Z.                                       *)
(***************************************************************************)
EXTENDS Integers, Sequences, FiniteSets, TLC

\* ------------------------------------------------------------------------
\* Program constants
\* ------------------------------------------------------------------------
TMDB_TIMEOUT == 15000
MAX_RETRIES == 3
RETRY_DELAY == 1000

HoursPerDay == 24
\* new Date(s).getTime() of an unparseable s (NaN), kept apart from every instant
InvalidDate == -1

\* ------------------------------------------------------------------------
\* Bounds and input domains
\* ------------------------------------------------------------------------
MovieIds == {"550", "551"}
\* the two addShow requests that may be in flight together, named in their
\* order of arrival
AddReqs == {"a", "b"}
Earlier(r) == IF r = "b" THEN {"a"} ELSE {}
\* request bodies' showsInput: lists of { date, time: [...] }; hour 25
\* ("25:00") does not parse
Entry(d, ts) == [date |-> d, time |-> ts]
ShowsInputs ==
  { <<>>,
    <<Entry(1, <<>>), Entry(2, <<>>)>>,
    <<Entry(1, <<2, 10>>)>>,
    <<Entry(1, <<20, 10>>)>>,
    <<Entry(2, <<2, 2>>)>>,
    <<Entry(1, <<20>>), Entry(2, <<2>>)>>,
    <<Entry(2, <<10>>), Entry(1, <<2>>)>>,
    <<Entry(2, <<10, 25>>)>> }
Prices == {10, 12}
\* the server's time zone: hours its local time is ahead of UTC
TimezoneOffset == 5
\* instants the clock may jump to
ClockTimes == {39}

\* messages of the errors axios.get may reject with
AxiosErrors == {"timeout of 15000ms exceeded", "Request failed with status code 404"}
DuplicateKey == "E11000 duplicate key error collection: movies"
ValidationError == "Show validation failed: showDateTime: Cast to date failed"
\* message of the error a call on a model rejects with when the database fails
DbError == "connection closed"

Null == [null |-> TRUE]
Absent == "<undefined>"
\* a `let` whose initializer threw
Unassigned == [unassigned |-> TRUE]

\* ------------------------------------------------------------------------
\* Generic helpers
\* ------------------------------------------------------------------------
RECURSIVE Pow2(_)
Pow2(n) == IF n = 0 THEN 1 ELSE 2 * Pow2(n - 1)

RECURSIVE SumSeq(_)
SumSeq(s) == IF s = <<>> THEN 0 ELSE Head(s) + SumSeq(Tail(s))

Range(s) == {s[k] : k \in DOMAIN s}

\* ------------------------------------------------------------------------
\* The external catalog (TMDB)
\* ------------------------------------------------------------------------
\* body of GET /movie/{id}
MovieApiData(movieId) ==
  [ title |-> <<"title", movieId>>,
    overview |-> <<"overview", movieId>>,
    poster_path |-> <<"poster", movieId>>,
    backdrop_path |-> <<"backdrop", movieId>>,
    genres |-> <<"genres", movieId>>,
    casts |-> Absent,
    release_date |-> <<"release", movieId>>,
    original_language |-> "en",
    tagline |-> IF movieId = "550" THEN "Mischief. Mayhem. Soap." ELSE Absent,
    vote_average |-> 8,
    runtime |-> 139 ]

\* body of GET /movie/{id}/credits
MovieCreditsData(movieId) == [cast |-> <<"cast", movieId>>]

\* body of GET /movie/now_playing
NowPlayingData == [results |-> <<"550", "551">>]

\* the axios response of a successful GET of the url
AxiosResponse(url) ==
  IF url[2] = "details" THEN [data |-> MovieApiData(url[1])]
  ELSE IF url[2] = "credits" THEN [data |-> MovieCreditsData(url[1])]
  ELSE [data |-> NowPlayingData]

\* ------------------------------------------------------------------------
\* fetchWithRetry: one call is a record
\*   st       "none" | "get" (axios.get pending) | "sleep" (setTimeout pending)
\*            | "returned" | "thrown"
\*   i        the loop index
\*   attempts axios.get calls made so far
\*   slept    the delays passed to setTimeout so far
\*   raised   the rejection of axios.get the call ended on
\*   error    the error the call threw
\*   value    the value the call returned
\* ------------------------------------------------------------------------
NoCall ==
  [st |-> "none", i |-> 0, attempts |-> 0, slept |-> <<>>,
   raised |-> Absent, error |-> Absent, value |-> Null]

\* entering the loop: the first axios.get is issued synchronously
fetchWithRetry(retries) ==
  IF 0 < retries
    THEN [NoCall EXCEPT !.st = "get", !.attempts = 1]
    ELSE [NoCall EXCEPT !.st = "returned"]

\* `return await axios.get(url, axiosConfig)` when the request succeeds
FetchResolved(f, url) ==
  [f EXCEPT !.st = "returned", !.value = AxiosResponse(url)]

\* the catch block with the last attempt taken to be index `retries`
FetchRejected_LateThrow(f, retries, error) ==
  IF f.i = retries
    THEN [f EXCEPT !.st = "thrown", !.raised = error, !.error = error]
    ELSE [f EXCEPT !.st = "sleep", !.slept = Append(@, RETRY_DELAY * Pow2(f.i))]

\* the catch block with the backoff exponent counted from 1
FetchRejected_DelayFromOne(f, retries, error) ==
  IF f.i = retries - 1
    THEN [f EXCEPT !.st = "thrown", !.raised = error, !.error = error]
    ELSE [f EXCEPT !.st = "sleep", !.slept = Append(@, RETRY_DELAY * Pow2(f.i + 1))]

\* the catch block
FetchRejected(f, retries, error) ==
  IF f.i = retries - 1
    THEN [f EXCEPT !.st = "thrown", !.raised = error, !.error = error]
    ELSE [f EXCEPT !.st = "sleep", !.slept = Append(@, RETRY_DELAY * Pow2(f.i))]

\* the timer fires: i++ and the loop test, then the next axios.get
FetchTimerFired(f, retries) ==
  IF f.i + 1 < retries
    THEN [f EXCEPT !.st = "get", !.i = @ + 1, !.attempts = @ + 1]
    ELSE [f EXCEPT !.st = "returned", !.i = @ + 1]

\* ------------------------------------------------------------------------
\* The Movie and Show collections
\* ------------------------------------------------------------------------
\* the unique index on _id holds a document with the id
HasId(coll, id) == \E m \in coll : m._id = id

\* Movie.findById with a lookup that never hits
FindById_NeverFound(coll, id) == Null

\* Movie.findById with a lookup that answers with a document of the id
\* whatever is stored
FindById_AlwaysFound(coll, id) == [_id |-> id]

\* Movie.findById
FindById(coll, id) ==
  IF \E m \in coll : m._id = id
    THEN CHOOSE m \in coll : m._id = id
    ELSE Null

\* the document with every field taken as it comes, the tagline too
MovieDetails_Verbatim(movieId, movieApiData) ==
  [ _id |-> movieId,
    title |-> movieApiData.title,
    overview |-> movieApiData.overview,
    poster_path |-> movieApiData.poster_path,
    backdrop_path |-> movieApiData.backdrop_path,
    genres |-> movieApiData.genres,
    casts |-> movieApiData.casts,
    release_date |-> movieApiData.release_date,
    original_language |-> movieApiData.original_language,
    tagline |-> movieApiData.tagline,
    vote_average |-> movieApiData.vote_average,
    runtime |-> movieApiData.runtime ]

\* the document built from the details response
MovieDetails(movieId, movieApiData) ==
  [ _id |-> movieId,
    title |-> movieApiData.title,
    overview |-> movieApiData.overview,
    poster_path |-> movieApiData.poster_path,
    backdrop_path |-> movieApiData.backdrop_path,
    genres |-> movieApiData.genres,
    casts |-> movieApiData.casts,
    release_date |-> movieApiData.release_date,
    original_language |-> movieApiData.original_language,
    tagline |-> IF movieApiData.tagline \in {Absent, ""} THEN "" ELSE movieApiData.tagline,
    vote_average |-> movieApiData.vote_average,
    runtime |-> movieApiData.runtime ]

\* the string read as UTC
NewDate_AsUTC(dateTimeString) ==
  LET d == dateTimeString[1]
      t == dateTimeString[2]
  IN IF d \in 1..31 /\ t \in 0..23
       THEN d * HoursPerDay + t
       ELSE InvalidDate

\* a date constructor that carries an hour past 23 into the next day
NewDate_CarryOver(dateTimeString) ==
  LET d == dateTimeString[1]
      t == dateTimeString[2]
  IN IF d \in 1..31 /\ t >= 0
       THEN d * HoursPerDay + t - TimezoneOffset
       ELSE InvalidDate

\* new Date(`${showDate}T${time}`): a date-time string without an offset is
\* local time
NewDate(dateTimeString) ==
  LET d == dateTimeString[1]
      t == dateTimeString[2]
  IN IF d \in 1..31 /\ t \in 0..23
       THEN d * HoursPerDay + t - TimezoneOffset
       ELSE InvalidDate

\* the local calendar day
ISODate_Local(instant) == (instant + TimezoneOffset) \div HoursPerDay

\* showDateTime.toISOString().split("T")[0]: the UTC calendar day
ISODate(instant) == instant \div HoursPerDay

\* the inner forEach: one document per time of the entry
RECURSIVE TimesToCreate(_, _, _, _)
TimesToCreate(movieId, showDate, times, showPrice) ==
  IF times = <<>> THEN <<>>
  ELSE << [ movie |-> movieId,
            showDateTime |-> NewDate(<<showDate, Head(times)>>),
            showPrice |-> showPrice,
            occupiedSeats |-> <<>> ] >>
       \o TimesToCreate(movieId, showDate, Tail(times), showPrice)

\* the outer forEach: showsToCreate
RECURSIVE ShowsToCreate(_, _, _)
ShowsToCreate(movieId, showsInput, showPrice) ==
  IF showsInput = <<>> THEN <<>>
  ELSE TimesToCreate(movieId, Head(showsInput).date, Head(showsInput).time,
                     showPrice)
       \o ShowsToCreate(movieId, Tail(showsInput), showPrice)

\* the insert made whatever the length
NeedsInsert_Always(showsToCreate) == TRUE

\* `if (showsToCreate.length > 0)`
NeedsInsert(showsToCreate) == Len(showsToCreate) > 0

\* the Show schema's validation of a batch: showDateTime must cast to a date
ShowsValid(docs) == \A k \in DOMAIN docs : docs[k].showDateTime # InvalidDate

\* an insert that writes the batch over the collection
InsertMany_Overwrite(coll, docs) ==
  [k \in 1..Len(docs) |->
     [ _id |-> Len(coll) + k,
       movie |-> docs[k].movie,
       showDateTime |-> docs[k].showDateTime,
       showPrice |-> docs[k].showPrice,
       occupiedSeats |-> docs[k].occupiedSeats ]]

\* Show.insertMany of a valid batch: identifiers follow insertion order
InsertMany(coll, docs) ==
  coll \o [k \in 1..Len(docs) |->
             [ _id |-> Len(coll) + k,
               movie |-> docs[k].movie,
               showDateTime |-> docs[k].showDateTime,
               showPrice |-> docs[k].showPrice,
               occupiedSeats |-> docs[k].occupiedSeats ]]

\* positions of the Shows matching { showDateTime: { $gte: date } }
Upcoming(coll, date) == {k \in DOMAIN coll : coll[k].showDateTime >= date}

\* positions of the Shows matching { movie: movieId, showDateTime: { $gte: date } }
UpcomingOf(coll, movieId, date) ==
  {k \in Upcoming(coll, date) : coll[k].movie = movieId}

\* a find without sort returns the matching documents in natural order, which
\* is insertion order in a collection nothing is deleted from
RECURSIVE NaturalOrder(_, _)
NaturalOrder(coll, S) ==
  IF coll = <<>> THEN <<>>
  ELSE LET front == NaturalOrder(SubSeq(coll, 1, Len(coll) - 1), S)
       IN IF Len(coll) \in S THEN Append(front, coll[Len(coll)]) ELSE front

\* every order .sort({ showDateTime: 1 }) may return them in (ties are free)
RECURSIVE SortedOrders(_, _)
SortedOrders(coll, S) ==
  IF S = {} THEN {<<>>}
  ELSE UNION {{<<x>> \o o : o \in SortedOrders(coll, S \ {x})} :
                x \in {y \in S : \A z \in S : coll[y].showDateTime <= coll[z].showDateTime}}

\* .populate('movie'): Shows of one movie share one populated document
Populate(show, movieColl) == [show EXCEPT !.movie = FindById(movieColl, show.movie)]

\* the list taken as it is
UniqueOf_Keep(list) == list

\* Array.from(new Set(list)): first occurrences, in order
RECURSIVE UniqueOf(_)
UniqueOf(list) ==
  IF list = <<>> THEN <<>>
  ELSE LET front == UniqueOf(SubSeq(list, 1, Len(list) - 1))
           last == list[Len(list)]
       IN IF last \in Range(front) THEN front ELSE Append(front, last)

\* the forEach of getShow: the dateTime object
RECURSIVE DateTimeOf(_)
DateTimeOf(list) ==
  IF list = <<>> THEN <<>>
  ELSE LET front == DateTimeOf(SubSeq(list, 1, Len(list) - 1))
           show == list[Len(list)]
           date == ISODate(show.showDateTime)
           entry == [time |-> show.showDateTime, showId |-> show._id]
       IN IF date \in DOMAIN front
            THEN [front EXCEPT ![date] = Append(@, entry)]
            ELSE front @@ (date :> <<entry>>)

\* ------------------------------------------------------------------------
\* State
\* ------------------------------------------------------------------------
VARIABLES
  movies,         \* the Movie collection: a set of documents
  shows,          \* the Show collection: documents in insertion order
  now,            \* the clock (new Date())
  pc,             \* addShow request -> "idle" | "fetching" | "create" | "insert" | "done"
  reqMovieId,     \* addShow request -> req.body.movieId
  reqShowsInput,  \* addShow request -> req.body.showsInput, once the handler has read it
  reqShowPrice,   \* addShow request -> req.body.showPrice, once the handler has read it
  movie,          \* addShow request -> the handler's `movie`
  fetch,          \* <<request, "details" | "credits" | "now_playing">> -> the
                  \* fetchWithRetry call the handler holds or that is still running
  fetchCalls,     \* the same -> fetchWithRetry calls made
  res,            \* addShow request -> the bodies passed to res.json
  created,        \* addShow request -> Movie documents its Movie.create persisted
  inserted,       \* addShow request -> identifiers of the Shows its insertMany persisted
  insertCalls,    \* addShow request -> Show.insertMany calls made
  qpc,            \* the read request: "idle" | "nowPlaying" | "getShows" | "getShow" | "done"
  qMovieId,       \* getShow: req.params.movieId
  qDate,          \* getShows, getShow: the new Date() of the query
  qSeen,          \* getShows, getShow: size of the Show collection when it was read
  qShows,         \* getShow: the handler's `shows`
  qres            \* the read request: the bodies passed to res.json

vars ==
  << movies, shows, now, pc, reqMovieId, reqShowsInput, reqShowPrice, movie,
     fetch, fetchCalls, res, created, inserted, insertCalls,
     qpc, qMovieId, qDate, qSeen, qShows, qres >>

storeVars == <<movies, shows>>
addVars ==
  <<fetchCalls, pc, reqMovieId, reqShowsInput, reqShowPrice, movie, res, created,
    inserted, insertCalls>>
queryVars == <<qpc, qMovieId, qDate, qSeen, qShows, qres>>

Q == "q"
Calls == (AddReqs \X {"details", "credits"}) \cup {<<Q, "now_playing">>}

\* the url of a call
UrlOf(c) == IF c[1] = Q THEN <<"movie", c[2]>> ELSE <<reqMovieId[c[1]], c[2]>>

Other(which) == IF which = "details" THEN "credits" ELSE "details"

TmdbPrefix == "Failed to fetch movie from TMDB: "

Init ==
  /\ movies = {}
  /\ shows = <<>>
  /\ now = 0
  /\ pc = [r \in AddReqs |-> "idle"]
  /\ reqMovieId = [r \in AddReqs |-> Absent]
  /\ reqShowsInput = [r \in AddReqs |-> <<>>]
  /\ reqShowPrice = [r \in AddReqs |-> 0]
  /\ movie = [r \in AddReqs |-> Null]
  /\ fetch = [c \in Calls |-> NoCall]
  /\ fetchCalls = [c \in Calls |-> 0]
  /\ res = [r \in AddReqs |-> <<>>]
  /\ created = [r \in AddReqs |-> {}]
  /\ inserted = [r \in AddReqs |-> {}]
  /\ insertCalls = [r \in AddReqs |-> 0]
  /\ qpc = "idle"
  /\ qMovieId = Absent
  /\ qDate = 0
  /\ qSeen = 0
  /\ qShows = <<>>
  /\ qres = <<>>

\* ------------------------------------------------------------------------
\* addShow
\* ------------------------------------------------------------------------
\* the request arrives; Movie.findById answers; when the movie is absent both
\* fetchWithRetry calls of the Promise.all are made
AddShowFindById(r, movieId) ==
  /\ pc[r] = "idle"
  /\ \A e \in Earlier(r) : pc[e] # "idle"
  /\ reqMovieId' = [reqMovieId EXCEPT ![r] = movieId]
  /\ movie' = [movie EXCEPT ![r] = FindById(movies, movieId)]
  /\ IF FindById(movies, movieId) = Null
       THEN /\ pc' = [pc EXCEPT ![r] = "fetching"]
            /\ fetch' = [fetch EXCEPT ![<<r, "details">>] = fetchWithRetry(MAX_RETRIES),
                                      ![<<r, "credits">>] = fetchWithRetry(MAX_RETRIES)]
            /\ fetchCalls' = [fetchCalls EXCEPT ![<<r, "details">>] = @ + 1,
                                                ![<<r, "credits">>] = @ + 1]
       ELSE /\ pc' = [pc EXCEPT ![r] = "insert"]
            /\ UNCHANGED <<fetch, fetchCalls>>
  /\ UNCHANGED <<storeVars, now, reqShowsInput, reqShowPrice, res, created,
                 inserted, insertCalls, queryVars>>

\* the handler goes on to Movie.create as soon as the details have come
AddShowFetchResolved_DetailsOnly(r, which) ==
  LET c == <<r, which>> IN
  /\ fetch[c].st = "get"
  /\ fetch' = [fetch EXCEPT ![c] = IF pc[r] = "fetching"
                                     THEN FetchResolved(fetch[c], UrlOf(c))
                                     ELSE NoCall]
  /\ pc' = IF pc[r] = "fetching" /\ which = "details"
             THEN [pc EXCEPT ![r] = "create"]
             ELSE pc
  /\ UNCHANGED <<storeVars, now, fetchCalls, reqMovieId, reqShowsInput,
                 reqShowPrice, movie, res, created, inserted, insertCalls, queryVars>>

\* the request arrives; Movie.findById rejects: `movie` is never assigned and
\* the outer catch responds
AddShowFindByIdRejected(r, movieId) ==
  /\ pc[r] = "idle"
  /\ \A e \in Earlier(r) : pc[e] # "idle"
  /\ reqMovieId' = [reqMovieId EXCEPT ![r] = movieId]
  /\ movie' = [movie EXCEPT ![r] = Unassigned]
  /\ pc' = [pc EXCEPT ![r] = "done"]
  /\ res' = [res EXCEPT ![r] = Append(@, [success |-> FALSE, message |-> <<DbError>>])]
  /\ UNCHANGED <<storeVars, now, fetch, fetchCalls, reqShowsInput, reqShowPrice,
                 created, inserted, insertCalls, queryVars>>

\* an axios.get of the request succeeds; Promise.all resolves with the second
\* result and the handler goes on to Movie.create
AddShowFetchResolved(r, which) ==
  LET c == <<r, which>> IN
  /\ fetch[c].st = "get"
  /\ fetch' = [fetch EXCEPT ![c] = IF pc[r] = "fetching"
                                     THEN FetchResolved(fetch[c], UrlOf(c))
                                     ELSE NoCall]
  /\ pc' = IF pc[r] = "fetching" /\ fetch[<<r, Other(which)>>].st = "returned"
             THEN [pc EXCEPT ![r] = "create"]
             ELSE pc
  /\ UNCHANGED <<storeVars, now, fetchCalls, reqMovieId, reqShowsInput,
                 reqShowPrice, movie, res, created, inserted, insertCalls, queryVars>>

\* the inner catch responds and does not return: the handler goes on to the
\* shows
AddShowFetchRejected_NoReturn(r, which, error) ==
  LET c == <<r, which>>
      f == FetchRejected(fetch[c], MAX_RETRIES, error)
  IN
  /\ fetch[c].st = "get"
  /\ fetch' = [fetch EXCEPT
       ![c] = IF pc[r] # "fetching" /\ f.st = "thrown" THEN NoCall ELSE f,
       ![<<r, Other(which)>>] =
          IF pc[r] = "fetching" /\ f.st = "thrown" /\ @.st = "returned" THEN NoCall ELSE @]
  /\ IF pc[r] = "fetching" /\ f.st = "thrown"
       THEN /\ pc' = [pc EXCEPT ![r] = "insert"]
            /\ res' = [res EXCEPT ![r] =
                 Append(@, [success |-> FALSE, message |-> <<TmdbPrefix, f.error>>])]
       ELSE UNCHANGED <<pc, res>>
  /\ UNCHANGED <<storeVars, now, fetchCalls, reqMovieId, reqShowsInput,
                 reqShowPrice, movie, created, inserted, insertCalls, queryVars>>

\* an axios.get of the request fails; when fetchWithRetry throws, Promise.all
\* rejects and the inner catch responds, and the other call, if it is still
\* pending, runs on with nobody awaiting it
AddShowFetchRejected(r, which, error) ==
  LET c == <<r, which>>
      f == FetchRejected(fetch[c], MAX_RETRIES, error)
  IN
  /\ fetch[c].st = "get"
  /\ fetch' = [fetch EXCEPT
       ![c] = IF pc[r] # "fetching" /\ f.st = "thrown" THEN NoCall ELSE f,
       ![<<r, Other(which)>>] =
          IF pc[r] = "fetching" /\ f.st = "thrown" /\ @.st = "returned" THEN NoCall ELSE @]
  /\ IF pc[r] = "fetching" /\ f.st = "thrown"
       THEN /\ pc' = [pc EXCEPT ![r] = "done"]
            /\ res' = [res EXCEPT ![r] =
                 Append(@, [success |-> FALSE, message |-> <<TmdbPrefix, f.error>>])]
       ELSE UNCHANGED <<pc, res>>
  /\ UNCHANGED <<storeVars, now, fetchCalls, reqMovieId, reqShowsInput,
                 reqShowPrice, movie, created, inserted, insertCalls, queryVars>>

\* the backoff timer of a call of the request fires
AddShowFetchTimer(r, which) ==
  LET c == <<r, which>> IN
  /\ fetch[c].st = "sleep"
  /\ fetch' = [fetch EXCEPT ![c] = FetchTimerFired(fetch[c], MAX_RETRIES)]
  /\ UNCHANGED <<storeVars, now, addVars, queryVars>>

\* a create that takes the _id being taken for success: the handler goes on
\* to the shows
AddShowCreate_ContinueOnConflict(r) ==
  LET movieApiData == fetch[<<r, "details">>].value.data
      movieDetails == MovieDetails(reqMovieId[r], movieApiData)
  IN
  /\ pc[r] = "create"
  /\ fetch' = [fetch EXCEPT ![<<r, "details">>] = NoCall, ![<<r, "credits">>] = NoCall]
  /\ IF ~HasId(movies, reqMovieId[r])
       THEN /\ movies' = movies \cup {movieDetails}
            /\ movie' = [movie EXCEPT ![r] = movieDetails]
            /\ created' = [created EXCEPT ![r] = @ \cup {movieDetails}]
       ELSE UNCHANGED <<movies, movie, created>>
  /\ pc' = [pc EXCEPT ![r] = "insert"]
  /\ UNCHANGED <<shows, now, fetchCalls, reqMovieId, reqShowsInput, reqShowPrice,
                 res, inserted, insertCalls, queryVars>>

\* the inner catch removes the Movie of the id before it responds
AddShowCreate_RemoveOnConflict(r) ==
  LET movieApiData == fetch[<<r, "details">>].value.data
      movieDetails == MovieDetails(reqMovieId[r], movieApiData)
  IN
  /\ pc[r] = "create"
  /\ fetch' = [fetch EXCEPT ![<<r, "details">>] = NoCall, ![<<r, "credits">>] = NoCall]
  /\ IF ~HasId(movies, reqMovieId[r])
       THEN /\ movies' = movies \cup {movieDetails}
            /\ movie' = [movie EXCEPT ![r] = movieDetails]
            /\ created' = [created EXCEPT ![r] = @ \cup {movieDetails}]
            /\ pc' = [pc EXCEPT ![r] = "insert"]
            /\ UNCHANGED res
       ELSE /\ pc' = [pc EXCEPT ![r] = "done"]
            /\ res' = [res EXCEPT ![r] =
                 Append(@, [success |-> FALSE, message |-> <<TmdbPrefix, DuplicateKey>>])]
            /\ movies' = {m \in movies : m._id # reqMovieId[r]}
            /\ UNCHANGED <<movie, created>>
  /\ UNCHANGED <<shows, now, fetchCalls, reqMovieId, reqShowsInput, reqShowPrice,
                 inserted, insertCalls, queryVars>>

\* Movie.create answers: the document is stored, or the _id is taken and the
\* inner catch responds
AddShowCreate(r) ==
  LET movieApiData == fetch[<<r, "details">>].value.data
      movieDetails == MovieDetails(reqMovieId[r], movieApiData)
  IN
  /\ pc[r] = "create"
  /\ fetch' = [fetch EXCEPT ![<<r, "details">>] = NoCall, ![<<r, "credits">>] = NoCall]
  /\ IF ~HasId(movies, reqMovieId[r])
       THEN /\ movies' = movies \cup {movieDetails}
            /\ movie' = [movie EXCEPT ![r] = movieDetails]
            /\ created' = [created EXCEPT ![r] = @ \cup {movieDetails}]
            /\ pc' = [pc EXCEPT ![r] = "insert"]
            /\ UNCHANGED res
       ELSE /\ pc' = [pc EXCEPT ![r] = "done"]
            /\ res' = [res EXCEPT ![r] =
                 Append(@, [success |-> FALSE, message |-> <<TmdbPrefix, DuplicateKey>>])]
            /\ UNCHANGED <<movies, movie, created>>
  /\ UNCHANGED <<shows, now, fetchCalls, reqMovieId, reqShowsInput, reqShowPrice,
                 inserted, insertCalls, queryVars>>

\* Movie.create rejects because the database fails: nothing is stored and the
\* inner catch responds
AddShowCreateRejected(r) ==
  /\ pc[r] = "create"
  /\ fetch' = [fetch EXCEPT ![<<r, "details">>] = NoCall, ![<<r, "credits">>] = NoCall]
  /\ pc' = [pc EXCEPT ![r] = "done"]
  /\ res' = [res EXCEPT ![r] =
       Append(@, [success |-> FALSE, message |-> <<TmdbPrefix, DbError>>])]
  /\ UNCHANGED <<storeVars, now, fetchCalls, reqMovieId, reqShowsInput, reqShowPrice,
                 movie, created, inserted, insertCalls, queryVars>>

\* the outer catch removes the Movie the request created before it responds
AddShowInsert_RollBackMovie(r, showsInput, showPrice) ==
  LET showsToCreate == ShowsToCreate(reqMovieId[r], showsInput, showPrice) IN
  /\ pc[r] = "insert"
  /\ reqShowsInput' = [reqShowsInput EXCEPT ![r] = showsInput]
  /\ reqShowPrice' = [reqShowPrice EXCEPT ![r] = showPrice]
  /\ pc' = [pc EXCEPT ![r] = "done"]
  /\ IF NeedsInsert(showsToCreate)
       THEN /\ insertCalls' = [insertCalls EXCEPT ![r] = @ + 1]
            /\ IF ShowsValid(showsToCreate)
                 THEN /\ shows' = InsertMany(shows, showsToCreate)
                      /\ inserted' = [inserted EXCEPT ![r] =
                           @ \cup (Len(shows) + 1 .. Len(shows) + Len(showsToCreate))]
                      /\ res' = [res EXCEPT ![r] =
                           Append(@, [success |-> TRUE,
                                      message |-> <<"Show Added successfully.">>])]
                      /\ UNCHANGED movies
                 ELSE /\ res' = [res EXCEPT ![r] =
                           Append(@, [success |-> FALSE, message |-> <<ValidationError>>])]
                      /\ movies' = movies \ created[r]
                      /\ UNCHANGED <<shows, inserted>>
       ELSE /\ res' = [res EXCEPT ![r] =
                 Append(@, [success |-> TRUE, message |-> <<"Show Added successfully.">>])]
            /\ UNCHANGED <<movies, shows, inserted, insertCalls>>
  /\ UNCHANGED <<now, fetch, fetchCalls, reqMovieId, movie, created, queryVars>>

\* the handler reads showsInput and showPrice, which the request body has
\* carried unread since its arrival, and builds showsToCreate;
\* Show.insertMany answers, if it was called; the handler responds
AddShowInsert(r, showsInput, showPrice) ==
  LET showsToCreate == ShowsToCreate(reqMovieId[r], showsInput, showPrice) IN
  /\ pc[r] = "insert"
  /\ reqShowsInput' = [reqShowsInput EXCEPT ![r] = showsInput]
  /\ reqShowPrice' = [reqShowPrice EXCEPT ![r] = showPrice]
  /\ pc' = [pc EXCEPT ![r] = "done"]
  /\ IF NeedsInsert(showsToCreate)
       THEN /\ insertCalls' = [insertCalls EXCEPT ![r] = @ + 1]
            /\ IF ShowsValid(showsToCreate)
                 THEN /\ shows' = InsertMany(shows, showsToCreate)
                      /\ inserted' = [inserted EXCEPT ![r] =
                           @ \cup (Len(shows) + 1 .. Len(shows) + Len(showsToCreate))]
                      /\ res' = [res EXCEPT ![r] =
                           Append(@, [success |-> TRUE,
                                      message |-> <<"Show Added successfully.">>])]
                 ELSE /\ res' = [res EXCEPT ![r] =
                           Append(@, [success |-> FALSE, message |-> <<ValidationError>>])]
                      /\ UNCHANGED <<shows, inserted>>
       ELSE /\ res' = [res EXCEPT ![r] =
                 Append(@, [success |-> TRUE, message |-> <<"Show Added successfully.">>])]
            /\ UNCHANGED <<shows, inserted, insertCalls>>
  /\ UNCHANGED <<movies, now, fetch, fetchCalls, reqMovieId, movie, created,
                 queryVars>>

\* the same, but Show.insertMany rejects because the database fails at the
\* failedAt-th document of the batch: the insert is ordered and runs in no
\* transaction, so the documents before that one stay stored; the outer catch
\* responds
AddShowInsertRejected(r, showsInput, showPrice, failedAt) ==
  LET showsToCreate == ShowsToCreate(reqMovieId[r], showsInput, showPrice)
      written == SubSeq(showsToCreate, 1, failedAt - 1)
  IN
  /\ pc[r] = "insert"
  /\ NeedsInsert(showsToCreate)
  /\ ShowsValid(showsToCreate)
  /\ failedAt \in 1..Len(showsToCreate)
  /\ reqShowsInput' = [reqShowsInput EXCEPT ![r] = showsInput]
  /\ reqShowPrice' = [reqShowPrice EXCEPT ![r] = showPrice]
  /\ pc' = [pc EXCEPT ![r] = "done"]
  /\ insertCalls' = [insertCalls EXCEPT ![r] = @ + 1]
  /\ shows' = InsertMany(shows, written)
  /\ inserted' = [inserted EXCEPT ![r] = @ \cup (Len(shows) + 1 .. Len(shows) + Len(written))]
  /\ res' = [res EXCEPT ![r] = Append(@, [success |-> FALSE, message |-> <<DbError>>])]
  /\ UNCHANGED <<movies, now, fetch, fetchCalls, reqMovieId, movie, created,
                 queryVars>>

\* ------------------------------------------------------------------------
\* getNowPlayingMovies
\* ------------------------------------------------------------------------
NowPlayingCall == <<Q, "now_playing">>

\* the request arrives and calls fetchWithRetry
GetNowPlayingMovies ==
  /\ qpc = "idle"
  /\ qpc' = "nowPlaying"
  /\ fetch' = [fetch EXCEPT ![NowPlayingCall] = fetchWithRetry(MAX_RETRIES)]
  /\ fetchCalls' = [fetchCalls EXCEPT ![NowPlayingCall] = @ + 1]
  /\ UNCHANGED <<storeVars, now, pc, reqMovieId, reqShowsInput, reqShowPrice, movie,
                 res, created, inserted, insertCalls, qMovieId, qDate, qSeen, qShows, qres>>

\* its axios.get succeeds: the handler responds with data.results
NowPlayingFetchResolved ==
  LET f == FetchResolved(fetch[NowPlayingCall], UrlOf(NowPlayingCall)) IN
  /\ fetch[NowPlayingCall].st = "get"
  /\ fetch' = [fetch EXCEPT ![NowPlayingCall] = NoCall]
  /\ qpc' = "done"
  /\ qres' = Append(qres, [success |-> TRUE, movies |-> f.value.data.results])
  /\ UNCHANGED <<storeVars, now, addVars, qMovieId, qDate, qSeen, qShows>>

\* its axios.get fails: a retry is scheduled, or the catch responds
NowPlayingFetchRejected(error) ==
  LET f == FetchRejected(fetch[NowPlayingCall], MAX_RETRIES, error) IN
  /\ fetch[NowPlayingCall].st = "get"
  /\ fetch' = [fetch EXCEPT ![NowPlayingCall] = f]
  /\ IF f.st = "thrown"
       THEN /\ qpc' = "done"
            /\ qres' = Append(qres, [success |-> FALSE, message |-> <<f.error>>])
       ELSE UNCHANGED <<qpc, qres>>
  /\ UNCHANGED <<storeVars, now, addVars, qMovieId, qDate, qSeen, qShows>>

\* its backoff timer fires
NowPlayingFetchTimer ==
  /\ fetch[NowPlayingCall].st = "sleep"
  /\ fetch' = [fetch EXCEPT ![NowPlayingCall] =
                 FetchTimerFired(fetch[NowPlayingCall], MAX_RETRIES)]
  /\ UNCHANGED <<storeVars, now, addVars, queryVars>>

\* ------------------------------------------------------------------------
\* getShows
\* ------------------------------------------------------------------------
\* the response's `shows` for one order of the query's result
UniqueShows(coll, movieColl, order) ==
  UniqueOf([k \in DOMAIN order |-> Populate(coll[order[k]], movieColl).movie])

\* the request arrives; the find/populate/sort answers; the handler responds
GetShows ==
  /\ qpc = "idle"
  /\ \E order \in SortedOrders(shows, Upcoming(shows, now)) :
       qres' = Append(qres, [success |-> TRUE,
                             shows |-> UniqueShows(shows, movies, order)])
  /\ qpc' = "done"
  /\ qDate' = now
  /\ qSeen' = Len(shows)
  /\ UNCHANGED <<storeVars, now, addVars, fetch, qMovieId, qShows>>

\* the request arrives; the find rejects; the catch responds
GetShowsRejected ==
  /\ qpc = "idle"
  /\ qres' = Append(qres, [success |-> FALSE, message |-> <<DbError>>])
  /\ qpc' = "done"
  /\ UNCHANGED <<storeVars, now, addVars, fetch, qMovieId, qDate, qSeen, qShows>>

\* ------------------------------------------------------------------------
\* getShow
\* ------------------------------------------------------------------------
\* the request arrives; Show.find answers
GetShowFind(movieId) ==
  /\ qpc = "idle"
  /\ qMovieId' = movieId
  /\ qShows' = NaturalOrder(shows, UpcomingOf(shows, movieId, now))
  /\ qpc' = "getShow"
  /\ qDate' = now
  /\ qSeen' = Len(shows)
  /\ UNCHANGED <<storeVars, now, addVars, fetch, qres>>

\* Movie.findById answers; the handler groups the shows and responds
GetShowRespond ==
  /\ qpc = "getShow"
  /\ qres' = Append(qres, [success |-> TRUE,
                           movie |-> FindById(movies, qMovieId),
                           dateTime |-> DateTimeOf(qShows)])
  /\ qpc' = "done"
  /\ UNCHANGED <<storeVars, now, addVars, fetch, qMovieId, qDate, qSeen, qShows>>

\* the request arrives; Show.find rejects; the catch responds
GetShowFindRejected(movieId) ==
  /\ qpc = "idle"
  /\ qMovieId' = movieId
  /\ qres' = Append(qres, [success |-> FALSE, message |-> <<DbError>>])
  /\ qpc' = "done"
  /\ UNCHANGED <<storeVars, now, addVars, fetch, qDate, qSeen, qShows>>

\* Movie.findById rejects; the catch responds
GetShowFindByIdRejected ==
  /\ qpc = "getShow"
  /\ qres' = Append(qres, [success |-> FALSE, message |-> <<DbError>>])
  /\ qpc' = "done"
  /\ UNCHANGED <<storeVars, now, addVars, fetch, qMovieId, qDate, qSeen, qShows>>

\* ------------------------------------------------------------------------
\* The clock
\* ------------------------------------------------------------------------
Tick(t) ==
  /\ t > now
  /\ now' = t
  /\ UNCHANGED <<storeVars, addVars, fetch, queryVars>>

\* ------------------------------------------------------------------------
\* Specification
\* ------------------------------------------------------------------------
\* the show scheduling and availability handlers
Next ==
  \/ \E r \in AddReqs, movieId \in MovieIds : AddShowFindById(r, movieId)
  \/ \E r \in AddReqs, which \in {"details", "credits"} : AddShowFetchResolved(r, which)
  \/ \E r \in AddReqs, which \in {"details", "credits"}, error \in AxiosErrors :
       AddShowFetchRejected(r, which, error)
  \/ \E r \in AddReqs, which \in {"details", "credits"} : AddShowFetchTimer(r, which)
  \/ \E r \in AddReqs : AddShowCreate(r)
  \/ \E r \in AddReqs, showsInput \in ShowsInputs, showPrice \in Prices :
       AddShowInsert(r, showsInput, showPrice)
  \/ GetShows
  \/ \E movieId \in MovieIds : GetShowFind(movieId)
  \/ GetShowRespond
  \/ \E t \in ClockTimes : Tick(t)

Spec == Init /\ [][Next]_vars

\* all four handlers
NextServer ==
  \/ Next
  \/ GetNowPlayingMovies
  \/ NowPlayingFetchResolved
  \/ \E error \in AxiosErrors : NowPlayingFetchRejected(error)
  \/ NowPlayingFetchTimer

SpecServer == Init /\ [][NextServer]_vars

\* request bodies that differ in what Show.insertMany is asked to do: nothing,
\* two Shows, a Show whose showDateTime is invalid
FailingInputs ==
  { <<>>, <<Entry(1, <<20>>), Entry(2, <<2>>)>>, <<Entry(2, <<10, 25>>)>> }

\* the requests are about one movie, so that they race for its Movie
FailingMovieIds == {"550"}

\* a step of the addShow request: a promise it awaits settles, or a timer of
\* one of its calls fires
AddShowStep(r) ==
  \/ \E which \in {"details", "credits"} : AddShowFetchResolved(r, which)
  \/ \E which \in {"details", "credits"}, error \in AxiosErrors :
       AddShowFetchRejected(r, which, error)
  \/ \E which \in {"details", "credits"} : AddShowFetchTimer(r, which)
  \/ AddShowCreate(r)
  \/ AddShowCreateRejected(r)
  \/ \E showsInput \in FailingInputs, showPrice \in Prices :
       AddShowInsert(r, showsInput, showPrice)
  \/ \E showsInput \in FailingInputs, showPrice \in Prices :
       \E failedAt \in 1..Len(ShowsToCreate(reqMovieId[r], showsInput, showPrice)) :
         AddShowInsertRejected(r, showsInput, showPrice, failedAt)

\* a step of the read request after its arrival
ReadStep ==
  \/ NowPlayingFetchResolved
  \/ \E error \in AxiosErrors : NowPlayingFetchRejected(error)
  \/ NowPlayingFetchTimer
  \/ GetShowRespond
  \/ GetShowFindByIdRejected

\* all four handlers, every call on a model and every axios.get free to fail
NextFailing ==
  \/ \E r \in AddReqs, movieId \in FailingMovieIds : AddShowFindById(r, movieId)
  \/ \E r \in AddReqs, movieId \in FailingMovieIds : AddShowFindByIdRejected(r, movieId)
  \/ \E r \in AddReqs : AddShowStep(r)
  \/ GetNowPlayingMovies
  \/ GetShows
  \/ GetShowsRejected
  \/ \E movieId \in FailingMovieIds : GetShowFind(movieId)
  \/ \E movieId \in FailingMovieIds : GetShowFindRejected(movieId)
  \/ ReadStep

\* axios.get settles within its timeout, a timer fires, a call on a model
\* settles, and the continuation of a settled await runs
SpecFailing ==
  /\ Init
  /\ [][NextFailing]_vars
  /\ \A r \in AddReqs : WF_vars(AddShowStep(r))
  /\ WF_vars(ReadStep)

\* ------------------------------------------------------------------------
\* Properties of fetchWithRetry
\* ------------------------------------------------------------------------
\* a call sleeps only between two attempts
SleepsBetweenAttempts(f) ==
  /\ f.st = "sleep" => Len(f.slept) = f.attempts /\ f.attempts < 3
  /\ f.st \in {"get", "returned", "thrown"} => Len(f.slept) = f.attempts - 1

\* C1: a fetchWithRetry call all of whose attempts fail makes exactly 3 attempts,
\* sleeps only between them (twice, never after the third), and throws the
\* very error its last axios.get rejected with.
C1_ExhaustedRetries ==
  \A c \in Calls :
    /\ SleepsBetweenAttempts(fetch[c])
    /\ fetch[c].st = "thrown" =>
         /\ fetch[c].attempts = 3
         /\ Len(fetch[c].slept) = 2
         /\ fetch[c].raised \in AxiosErrors
         /\ fetch[c].error = fetch[c].raised

C1_Witness ==
  \E c \in Calls : fetch[c].st = "thrown" /\ fetch[c].attempts = 3

\* C2: a call whose first two attempts fail and whose third succeeds returns
\* the response of the third; it has slept 1000 ms after the first failure and
\* 2000 ms after the second, 3000 ms in all; the delay after failed attempt i
\* (from 0) is 1000 * 2^i.
C2_BackoffThenSuccess ==
  \A c \in Calls :
    /\ \A k \in DOMAIN fetch[c].slept : fetch[c].slept[k] = 1000 * Pow2(k - 1)
    /\ fetch[c].st = "returned" /\ fetch[c].attempts = 3 =>
         /\ fetch[c].value = AxiosResponse(UrlOf(c))
         /\ fetch[c].slept = <<1000, 2000>>
         /\ SumSeq(fetch[c].slept) = 3000

C2_Witness ==
  \E c \in Calls :
    fetch[c].st = "returned" /\ fetch[c].attempts = 3 /\ Len(fetch[c].slept) = 2

\* ------------------------------------------------------------------------
\* Properties of the movie resolution of addShow
\* ------------------------------------------------------------------------
\* Movie.findById of the request found no Movie
Missed(r) == pc[r] # "idle" /\ (movie[r] = Null \/ created[r] # {})

\* the request has got past the resolution: it holds a Movie
Resolved(r) == pc[r] \in {"insert", "done"} /\ movie[r] \notin {Null, Unassigned}

\* the request made exactly one details call and one credits call
FetchedOnce(r) ==
  fetchCalls[<<r, "details">>] = 1 /\ fetchCalls[<<r, "credits">>] = 1

\* C3, as stated: a resolve that finds no Movie makes exactly one details call
\* and one credits call and persists exactly one Movie.
C3_AlwaysPersistsOne ==
  \A r \in AddReqs :
    pc[r] = "done" /\ Missed(r) => FetchedOnce(r) /\ Cardinality(created[r]) = 1

\* a resolve that finds the Movie makes no call and creates nothing; one that
\* does not makes one call of each kind, both made in one step, and creates at
\* most one Movie, exactly one once it is resolved
ResolveOnce(r) ==
  /\ pc[r] # "idle" /\ ~Missed(r) =>
       /\ fetchCalls[<<r, "details">>] = 0 /\ fetchCalls[<<r, "credits">>] = 0
       /\ created[r] = {}
  /\ Missed(r) =>
       /\ FetchedOnce(r)
       /\ created[r] \subseteq {MovieDetails(reqMovieId[r], MovieApiData(reqMovieId[r]))}
       /\ created[r] \subseteq movies
       /\ Resolved(r) => Cardinality(created[r]) = 1
  /\ pc[r] = "idle" =>
       fetchCalls[<<r, "details">>] = 0 /\ fetchCalls[<<r, "credits">>] = 0

\* a request arriving when the Movie is stored finds it: it goes on to the
\* shows without a call
LaterResolveFinds(r) ==
  pc[r] = "idle" /\ pc'[r] # "idle" /\ (\E m \in movies : m._id = reqMovieId'[r]) =>
    /\ pc'[r] = "insert"
    /\ movie'[r] \in movies
    /\ fetchCalls' = fetchCalls
    /\ movies' = movies

\* C3, amended: a resolve that finds no Movie makes exactly one details call and
\* one credits call, both made before either is awaited, and persists at most
\* one Movie: exactly one when both calls succeed and its Movie.create
\* succeeds, none when a call fails or another request created the Movie
\* first; storage holds at most one Movie per id; every resolve that starts
\* once the Movie is stored finds it, makes no call and creates no Movie.
C3_ResolveOnce ==
  /\ [](\A r \in AddReqs : ResolveOnce(r))
  /\ [](\A m1, m2 \in movies : m1._id = m2._id => m1 = m2)
  /\ [][\A r \in AddReqs : LaterResolveFinds(r)]_vars

\* one request has synchronized the Movie, the next has found it
C3_Witness ==
  /\ pc["a"] = "done" /\ Missed("a") /\ Cardinality(created["a"]) = 1
  /\ pc["b"] = "done" /\ ~Missed("b") /\ reqMovieId["b"] = reqMovieId["a"]
  /\ res["b"][1].success

\* the response of the request reports this error
Reports(r, error) ==
  pc[r] = "done" /\ ~res[r][1].success /\ error \in Range(res[r][1].message)

\* the response has the form of an external-catalog failure
IsFetchFailure(response) == ~response.success /\ response.message[1] = TmdbPrefix

\* the response has the form of the handler's catch-all failure
IsGenericFailure(response) == ~response.success /\ Len(response.message) = 1

\* C4: the primary-key violation of the second of two racing Movie.create calls
\* is reported as a conflict, a failure that has neither the form of an
\* external-catalog failure nor that of a generic failure.
C4_ConflictIsDistinct ==
  \A r \in AddReqs :
    Reports(r, DuplicateKey) =>
      ~IsFetchFailure(res[r][1]) /\ ~IsGenericFailure(res[r][1])

\* ------------------------------------------------------------------------
\* Properties of the show creation of addShow
\* ------------------------------------------------------------------------
\* the (date, time) pairs of a showsInput, in order
RECURSIVE SlotsOf(_)
SlotsOf(showsInput) ==
  IF showsInput = <<>> THEN <<>>
  ELSE [k \in 1..Len(Head(showsInput).time) |->
          <<Head(showsInput).date, Head(showsInput).time[k]>>]
       \o SlotsOf(Tail(showsInput))

\* the sum of the lengths of the entries' time lists
RECURSIVE SlotCount(_)
SlotCount(showsInput) ==
  IF showsInput = <<>> THEN 0
  ELSE Len(Head(showsInput).time) + SlotCount(Tail(showsInput))

\* the instant of a local date and time of day
CombinedInstant(slot) == (slot[1] * 24 + slot[2]) - TimezoneOffset

Succeeded(r) == pc[r] = "done" /\ res[r][1].success

\* C5: a successful addShow has persisted exactly one Show per (date, time)
\* pair of its showsInput, as many as the entries' time lists are long in sum;
\* each references the request's movieId, carries the request's price, has
\* no occupied seat and has the pair's combined instant as showDateTime.
C5_OneShowPerSlot ==
  \A r \in AddReqs :
    Succeeded(r) =>
      LET slots == SlotsOf(reqShowsInput[r]) IN
      /\ Cardinality(inserted[r]) = SlotCount(reqShowsInput[r])
      /\ Len(slots) = SlotCount(reqShowsInput[r])
      /\ \E base \in 0..Len(shows) :
           /\ inserted[r] = base + 1 .. base + Len(slots)
           /\ \A k \in 1..Len(slots) :
                /\ shows[base + k].movie = reqMovieId[r]
                /\ shows[base + k].showPrice = reqShowPrice[r]
                /\ shows[base + k].occupiedSeats = <<>>
                /\ shows[base + k].showDateTime = CombinedInstant(slots[k])

\* a request with two entries has succeeded
C5_Witness ==
  \E r \in AddReqs :
    /\ Succeeded(r)
    /\ Len(reqShowsInput[r]) = 2
    /\ Cardinality(inserted[r]) = 2

\* C6: an addShow whose movie resolves and whose showsInput yields no slot
\* never calls Show.insertMany, persists no Show and responds with success;
\* every persisted Show was inserted by a request with slots.
C6_NoSlotsNoWrite ==
  /\ \A r \in AddReqs :
       pc[r] = "done" /\ Resolved(r) /\ SlotCount(reqShowsInput[r]) = 0 =>
         /\ insertCalls[r] = 0
         /\ inserted[r] = {}
         /\ res[r] = <<[success |-> TRUE, message |-> <<"Show Added successfully.">>]>>
  /\ DOMAIN shows = UNION {inserted[r] : r \in AddReqs}

\* a request whose entries have empty time lists has succeeded
C6_Witness ==
  \E r \in AddReqs :
    /\ Succeeded(r)
    /\ Len(reqShowsInput[r]) = 2
    /\ SlotCount(reqShowsInput[r]) = 0

\* ------------------------------------------------------------------------
\* Properties of getShows and getShow
\* ------------------------------------------------------------------------
\* the Shows the query of the read request saw
SeenShows == {shows[k] : k \in 1..qSeen}

IsGetShows(response) == "shows" \in DOMAIN response
IsGetShow(response) == "dateTime" \in DOMAIN response

\* C7: the list getShows responds with holds every Movie that has a Show at
\* or after the query's date exactly once, and no other Movie.
C7_UpcomingMoviesOnce ==
  \A n \in DOMAIN qres :
    IsGetShows(qres[n]) =>
      LET list == qres[n].shows
          upcoming == {s.movie : s \in {x \in SeenShows : x.showDateTime >= qDate}}
      IN /\ qres[n].success
         /\ \A k \in DOMAIN list : list[k] \in movies
         /\ {list[k]._id : k \in DOMAIN list} = upcoming
         /\ \A j, k \in DOMAIN list : list[j]._id = list[k]._id => j = k

\* one movie with two upcoming Shows is listed once, and a movie whose only
\* Show is past is left out
C7_Witness ==
  \E n \in DOMAIN qres :
    /\ IsGetShows(qres[n])
    /\ Len(qres[n].shows) = 1
    /\ Cardinality({s \in SeenShows : s.showDateTime >= qDate
                                      /\ s.movie = qres[n].shows[1]._id}) >= 2
    /\ \E s \in SeenShows : s.movie # qres[n].shows[1]._id /\ s.showDateTime < qDate

\* C8: the dateTime object getShow responds with holds exactly the Shows of
\* the movie at or after the query's date, each once, as { time, showId }
\* under the UTC calendar day of its showDateTime; no bucket is empty.
C8_AvailabilityExact ==
  \A n \in DOMAIN qres :
    IsGetShow(qres[n]) =>
      LET dateTime == qres[n].dateTime
          wanted == {s \in SeenShows : s.movie = qMovieId /\ s.showDateTime >= qDate}
          slots == UNION {{<<date, k>> : k \in DOMAIN dateTime[date]} :
                            date \in DOMAIN dateTime}
      IN /\ \A date \in DOMAIN dateTime : Len(dateTime[date]) >= 1
         /\ Cardinality(slots) = Cardinality(wanted)
         /\ \A s \in wanted :
              \E date \in DOMAIN dateTime : \E k \in DOMAIN dateTime[date] :
                /\ dateTime[date][k] = [time |-> s.showDateTime, showId |-> s._id]
                /\ date * 24 <= s.showDateTime
                /\ s.showDateTime < (date + 1) * 24

\* two days are listed, a past Show of the movie and a Show of another movie
\* are left out, and a Show is listed under the day before its local day
C8_Witness ==
  \E n \in DOMAIN qres :
    /\ IsGetShow(qres[n])
    /\ Cardinality(DOMAIN qres[n].dateTime) >= 2
    /\ \E s \in SeenShows : s.movie = qMovieId /\ s.showDateTime < qDate
    /\ \E date \in DOMAIN qres[n].dateTime :
         (qres[n].dateTime[date][1].time + TimezoneOffset) \div 24 # date

\* C9: in the dateTime object of getShow, every bucket is ordered by ascending
\* showDateTime.
C9_BucketsAscending ==
  \A n \in DOMAIN qres :
    IsGetShow(qres[n]) =>
      \A date \in DOMAIN qres[n].dateTime :
        \A j, k \in DOMAIN qres[n].dateTime[date] :
          j < k => qres[n].dateTime[date][j].time <= qres[n].dateTime[date][k].time

\* C10: getShow for a movieId without a Movie in storage responds with a
\* failure.
C10_UnknownMovieFails ==
  \A n \in DOMAIN qres :
    IsGetShow(qres[n]) /\ qres[n].movie = Null => ~qres[n].success

\* ------------------------------------------------------------------------
\* Properties of the failures of addShow
\* ------------------------------------------------------------------------
\* C11: an addShow one of whose fetchWithRetry calls throws responds with the
\* failure "Failed to fetch movie from TMDB: " followed by the error's message,
\* and has persisted no Movie and no Show; a Movie is persisted only by a
\* request both of whose calls have returned.
C11_FetchFailurePersistsNothing ==
  /\ [](\A r \in AddReqs : \A error \in AxiosErrors :
         Reports(r, error) =>
           /\ res[r] = <<[success |-> FALSE, message |-> <<TmdbPrefix, error>>]>>
           /\ created[r] = {}
           /\ inserted[r] = {}
           /\ insertCalls[r] = 0)
  /\ [][\A r \in AddReqs :
          created'[r] # created[r] \/ (movies' # movies /\ pc'[r] # pc[r]) =>
            /\ fetch[<<r, "details">>].st = "returned"
            /\ fetch[<<r, "credits">>].st = "returned"]_vars

\* a request has reported a failed call and its movie is not stored
C11_Witness ==
  \E r \in AddReqs : \E error \in AxiosErrors :
    Reports(r, error) /\ ~HasId(movies, reqMovieId[r])

\* a response body: the success body of a handler, or { success: false, message }
IsResponse(response) ==
  IF response.success
    THEN DOMAIN response \in {{"success", "message"}, {"success", "movies"},
                              {"success", "shows"}, {"success", "movie", "dateTime"}}
    ELSE DOMAIN response = {"success", "message"} /\ response.message # <<>>

\* C12: every request of getNowPlayingMovies, addShow, getShows and getShow is
\* answered, whichever of its axios.get and model calls fail: it never sends a
\* second response, it has sent one exactly when its handler is done, the
\* response is a success body or { success: false, message }, and a request
\* that has arrived is eventually answered.
C12_ExactlyOneResponse ==
  /\ [](\A r \in AddReqs :
         /\ Len(res[r]) <= 1
         /\ pc[r] = "done" <=> Len(res[r]) = 1
         /\ \A n \in DOMAIN res[r] : IsResponse(res[r][n]))
  /\ [](/\ Len(qres) <= 1
        /\ qpc = "done" <=> Len(qres) = 1
        /\ \A n \in DOMAIN qres : IsResponse(qres[n]))
  /\ \A r \in AddReqs : (pc[r] # "idle") ~> (Len(res[r]) = 1)
  /\ (qpc # "idle") ~> (Len(qres) = 1)

\* three requests are answered: one after its insertMany failed, one with
\* success, one after its find failed
C12_Witness ==
  /\ Reports("a", DbError) /\ insertCalls["a"] = 1
  /\ Succeeded("b")
  /\ qpc = "done" /\ Len(qres) = 1 /\ ~qres[1].success

\* the request called Show.insertMany and responded with a failure
InsertFailed(r) == pc[r] = "done" /\ insertCalls[r] = 1 /\ ~res[r][1].success

\* C13: an addShow whose Show.insertMany fails responds with one failure and
\* has persisted none of the Shows of its batch.
C13_FailedInsertPersistsNothing ==
  \A r \in AddReqs :
    InsertFailed(r) => Len(res[r]) = 1 /\ inserted[r] = {}

\* the pair combines into an instant: a day of the month and an hour of the day
Parseable(slot) == slot[1] \in 1..31 /\ slot[2] \in 0..23

\* C14: an addShow whose movie resolves and one of whose (date, time) pairs
\* does not combine into an instant responds with the creation error of the
\* Show, not with success, and persists no Show for the pair; no persisted
\* Show has an invalid showDateTime.
C14_UnparseableSlotFails ==
  /\ \A r \in AddReqs :
       LET slots == SlotsOf(reqShowsInput[r]) IN
       pc[r] = "done" /\ Resolved(r) /\ (\E k \in DOMAIN slots : ~Parseable(slots[k])) =>
         /\ res[r] = <<[success |-> FALSE, message |-> <<ValidationError>>]>>
         /\ insertCalls[r] = 1
         /\ inserted[r] = {}
  /\ \A k \in DOMAIN shows : shows[k].showDateTime # InvalidDate

\* a request with a parseable and an unparseable pair has failed
C14_Witness ==
  \E r \in AddReqs :
    LET slots == SlotsOf(reqShowsInput[r]) IN
    /\ Reports(r, ValidationError)
    /\ \E k \in DOMAIN slots : Parseable(slots[k])
    /\ \E k \in DOMAIN slots : ~Parseable(slots[k])

\* ------------------------------------------------------------------------
\* Properties of the stored Movies and Shows
\* ------------------------------------------------------------------------
\* the fields a Movie takes from the details response as they are
CopiedFields ==
  { "title", "overview", "poster_path", "backdrop_path", "genres", "casts",
    "release_date", "original_language", "vote_average", "runtime" }

C16_ShowsReferenceStoredMovies ==
  /\ [](\A k \in DOMAIN shows : HasId(movies, shows[k].movie))
  /\ [][\A r \in AddReqs :
          inserted'[r] # inserted[r] =>
            /\ movie[r] \in movies
            /\ movie[r]._id = reqMovieId[r]
            /\ \A k \in inserted'[r] : shows'[k].movie = reqMovieId[r]]_vars

\* Shows of two movies are stored, and a request that created its Movie has
\* inserted Shows
C16_Witness ==
  /\ \E j, k \in DOMAIN shows : shows[j].movie # shows[k].movie
  /\ \E r \in AddReqs : inserted[r] # {} /\ created[r] # {}

\* C17: a stored Movie stays stored as it is through every step, those of
\* concurrent addShow requests for its id included, and no two stored Movies
\* have the same _id.
C17_MoviesImmutable ==
  /\ [][\A m \in movies : m \in movies' /\ FindById(movies', m._id) = m]_vars
  /\ [](\A m1, m2 \in movies : m1._id = m2._id => m1 = m2)
  /\ [](Cardinality(movies) = Cardinality({m._id : m \in movies}))

\* two requests for one movie have both tried to create it, and the Movie of
\* the first is stored
C17_Witness ==
  /\ Cardinality(created["a"]) + Cardinality(created["b"]) = 1
  /\ \E r \in AddReqs : Reports(r, DuplicateKey)
  /\ reqMovieId["a"] = reqMovieId["b"]
  /\ created["a"] \cup created["b"] = movies

\* the first sequence is the beginning of the second
IsPrefix(s, t) == Len(s) <= Len(t) /\ SubSeq(t, 1, Len(s)) = s

\* C18: every step leaves the stored Shows as they are and at most appends
\* Shows; Shows are appended only by the insertMany step of an addShow; the
\* steps of the read requests (getNowPlayingMovies, getShows, getShow) change
\* neither collection; every stored Show has no occupied seat.
C18_ShowsOnlyGrow ==
  /\ [][/\ IsPrefix(shows, shows')
        /\ shows' # shows =>
             \E r \in AddReqs :
               /\ pc[r] = "insert" /\ pc'[r] = "done"
               /\ insertCalls'[r] = insertCalls[r] + 1
               /\ inserted'[r] = inserted[r] \cup (Len(shows) + 1 .. Len(shows'))
        /\ queryVars' # queryVars => storeVars' = storeVars]_vars
  /\ [](\A k \in DOMAIN shows : shows[k].occupiedSeats = <<>>)

\* both addShow requests have appended Shows and a read request has read them
C18_Witness ==
  /\ inserted["a"] # {} /\ inserted["b"] # {}
  /\ qpc = "done" /\ qres[1].success /\ qSeen = Len(shows) /\ qSeen >= 3

\* the request created its Movie and its Show.insertMany failed
CreatedThenInsertFailed(r) == InsertFailed(r) /\ created[r] # {}

\* C19: an addShow that created its Movie and whose Show.insertMany failed
\* has responded with one failure and its Movie is stored; an addShow for the
\* same movieId that arrives afterwards makes no fetchWithRetry call, and
\* when its findById answers it holds that Movie and goes on to the shows.
C19_MovieSurvivesFailedInsert ==
  /\ [](\A r \in AddReqs :
         CreatedThenInsertFailed(r) =>
           /\ Len(res[r]) = 1 /\ ~res[r][1].success
           /\ Cardinality(created[r]) = 1
           /\ created[r] \subseteq movies)
  /\ [][\A e, r \in AddReqs :
          /\ CreatedThenInsertFailed(e)
          /\ pc[r] = "idle" /\ pc'[r] # "idle"
          /\ reqMovieId'[r] = reqMovieId[e]
          => /\ fetchCalls' = fetchCalls
             /\ fetch' = fetch
             /\ movies' = movies
             /\ movie'[r] # Unassigned => pc'[r] = "insert" /\ movie'[r] \in created[e]]_vars

\* the first request created the Movie and failed to insert; the second, for
\* the same movie, has succeeded without a call
C19_Witness ==
  /\ CreatedThenInsertFailed("a")
  /\ reqMovieId["b"] = reqMovieId["a"]
  /\ Succeeded("b") /\ inserted["b"] # {}
  /\ fetchCalls[<<"b", "details">>] = 0 /\ fetchCalls[<<"b", "credits">>] = 0
  /\ movies = created["a"]

\* C20: of two addShow requests that both call Movie.create for one movieId,
\* the one whose create fails on the _id responds with one failure, has
\* called Show.insertMany not once and has inserted no Show, while the Movie,
\* created by the other, is stored; a request that found no Movie calls
\* Show.insertMany only if its own create succeeded.
C20_LoserInsertsNothing ==
  /\ \A r \in AddReqs :
       Reports(r, DuplicateKey) =>
         /\ Len(res[r]) = 1
         /\ insertCalls[r] = 0
         /\ inserted[r] = {}
         /\ created[r] = {}
         /\ \E w \in AddReqs \ {r} :
              /\ reqMovieId[w] = reqMovieId[r]
              /\ Cardinality(created[w]) = 1
              /\ FindById(movies, reqMovieId[r]) \in created[w]
  /\ \A r \in AddReqs :
       Missed(r) /\ (insertCalls[r] > 0 \/ pc[r] = "insert") => Cardinality(created[r]) = 1

\* the request that arrived first has lost the race, and the other has
\* inserted its Shows
C20_Witness ==
  /\ Reports("a", DuplicateKey)
  /\ Succeeded("b") /\ inserted["b"] # {}
  /\ DOMAIN shows = inserted["b"]

====
